---- MODULE Spec2Model ----
(***************************************************************************)
(* A model of pysaql's stream builder (src/pysaql/saql/stream.py) and of   *)
(* the Expression base class (src/pysaql/expression.py).                   *)
(*                                                                         *)
(* Stream objects are the numbers 1..nStreams, in creation order.  An      *)
(* optional value (Optional[...] in the source) is a sequence of length 0  *)
(* (None) or 1.  The result of a string conversion is a record             *)
(* [exc, text]: exc = "none" and the text, or the exception it raised.     *)
(***************************************************************************)
EXTENDS Integers, Sequences, FiniteSets, TLC

VARIABLES
    nStreams,      \* number of Stream objects constructed so far
    _id,           \* Stream._id of every stream object
    _statements,   \* Stream._statements of every stream object
    _alias,        \* Expression._alias of every expression object
    call           \* the last call of the builder API and how it ended

vars == <<nStreams, _id, _statements, _alias, call>>

---------------------------------------------------------------------------
(* Bounds of the model and the inputs the calls are drawn from.            *)

MaxStreams == 4
MaxCogroups == 2
MaxChain == 2

LimitMax == 10000

Names == {"a"}
Fields == {"f1", "f2"}
Keys == {"f1"}
InputCounts == {0, 1, 2, 3}
FewInputCounts == {0, 1, 2}
FieldLists == {<<"f1">>, <<"f1", "f2">>}
FilterLists == {<<>>, <<"p1">>, <<"p1", "p2">>}
OrderLists ==
    { <<>>,
      <<[pair |-> FALSE, scalar |-> "f1"]>>,
      <<[pair |-> FALSE, scalar |-> "f1"],
        [pair |-> TRUE, scalar |-> "f2", order |-> "desc"]>> }
Limits == {-1, 0, 1, LimitMax, LimitMax + 1}
JoinTypes == {"inner", "left"}
FillTypes == {"y-M"}
Partitions == {<<>>, <<"f2">>}
AliasNames == {"", "a", "b"}

Streams == 1..nStreams
None == <<>>
Some(x) == <<x>>

---------------------------------------------------------------------------
(* Helpers.                                                                *)

Max(a, b) == IF a >= b THEN a ELSE b

Ok(text) == [exc |-> "none", text |-> text]
Raise(exc) == [exc |-> exc, text |-> ""]

RECURSIVE JoinFrom(_, _, _, _, _)
\* the rest of sep.join over the n parts from the i-th on, with the text
\* joined so far: the parts are converted left to right, and the first
\* exception raised ends the join.
JoinFrom(sep, n, parts, i, text) ==
    IF i > n THEN Ok(text)
    ELSE IF parts[i].exc # "none" THEN parts[i]
    ELSE JoinFrom(sep, n, parts, i + 1,
                  IF i = 1 THEN parts[i].text ELSE text \o sep \o parts[i].text)

\* sep.join over the results of the conversions of the n parts
Join(sep, n, parts) == JoinFrom(sep, n, parts, 1, "")

---------------------------------------------------------------------------
(* Collaborators of the core that live outside the two modelled files.     *)

\* util.escape_identifier: the alias as a quoted identifier.
escape_identifier(name) == "'" \o name \o "'"

\* util.stringify: a string literal of the query language.
stringify(s) == "\"" \o s \o "\""

\* field.to_string: a column reference.
field_to_string(f) == "'" \o f \o "'"

\* BinaryOperation.to_string of the leaf predicates the filters are drawn from.
predicate_to_string(p) ==
    IF p = "p1" THEN "'f1' > 1" ELSE "'f2' == 2"

\* BinaryOperation(operator.and_, left, right), as rendered.
and_to_string(left, right) == left \o " && " \o right

---------------------------------------------------------------------------
(* Expression (expression.py).                                             *)

\* Expression.__str__: to_string(), then the alias when it is truthy (set
\* and not the empty string).
Expression__str__(rendered, alias) ==
    IF alias # None /\ Head(alias) # ""
    THEN rendered \o " as " \o escape_identifier(Head(alias))
    ELSE rendered

\* str(f) of a field object.
ScalarStr(f) == Expression__str__(field_to_string(f), _alias.scalar[f])

RECURSIVE JoinText(_, _)
\* sep.join(parts) of strings.
JoinText(sep, parts) ==
    IF parts = <<>> THEN ""
    ELSE IF Len(parts) = 1 THEN Head(parts)
    ELSE Head(parts) \o sep \o JoinText(sep, Tail(parts))

\* ", ".join(str(f) for f in fields)
FieldsStr(sep, fields) ==
    JoinText(sep, [i \in 1..Len(fields) |-> ScalarStr(fields[i])])

---------------------------------------------------------------------------
(* Stream and its statements (stream.py).                                  *)

\* a reference that keeps the id Stream.__init__ gave
ref_AtConstruction(s) == "q" \o ToString(0)

\* Stream.ref
ref(s) == "q" \o ToString(_id[s])

LoadStatement__str__(st) ==
    Ok(ref(st.stream) \o " = load \"" \o st.name \o "\";")

ProjectionStatement__str__(st) ==
    Ok(ref(st.stream) \o " = foreach " \o ref(st.stream) \o " generate "
       \o FieldsStr(", ", st.fields) \o ";")

\* one entry of OrderStatement.__str__'s list
OrderField(f) ==
    IF ~f.pair THEN ScalarStr(f.scalar) \o " asc"
    ELSE ScalarStr(f.scalar) \o " " \o f.order

OrderStatement__str__(st) ==
    LET fields == [i \in 1..Len(st.fields) |-> OrderField(st.fields[i])]
    IN  IF Len(fields) > 1
        THEN Ok(ref(st.stream) \o " = order " \o ref(st.stream) \o " by ("
                \o JoinText(", ", fields) \o ");")
        ELSE IF Len(fields) = 0 THEN Raise("IndexError")
        ELSE Ok(ref(st.stream) \o " = order " \o ref(st.stream) \o " by "
                \o fields[1] \o ";")

LimitStatement__str__(st) ==
    Ok(ref(st.stream) \o " = limit " \o ref(st.stream) \o " "
       \o ToString(st.limit) \o ";")

GroupStatement__str__(st) ==
    Ok(ref(st.stream) \o " = group " \o ref(st.stream) \o " by "
       \o FieldsStr(", ", st.fields) \o ";")

RECURSIVE Reduce(_, _)
\* functools.reduce(and, filters) with the first filter as the start value,
\* over the rendered operands.
Reduce(acc, rest) ==
    IF rest = <<>> THEN acc
    ELSE Reduce(and_to_string(acc, predicate_to_string(Head(rest))), Tail(rest))

FilterStatement__str__(st) ==
    IF st.filters = <<>> THEN Raise("TypeError")
    ELSE Ok(ref(st.stream) \o " = filter " \o ref(st.stream) \o " by "
            \o Reduce(predicate_to_string(Head(st.filters)), Tail(st.filters))
            \o ";")

FillStatement__str__(st) ==
    LET dates == "dateCols=(" \o FieldsStr(",", st.date_cols) \o ", "
                 \o stringify(st.date_type_string) \o ")"
        args == IF st.partition # None
                THEN <<dates, "partition=" \o stringify(ScalarStr(Head(st.partition)))>>
                ELSE <<dates>>
    IN  Ok(ref(st.stream) \o " = fill " \o ref(st.stream) \o " by ("
           \o JoinText(", ", args) \o ");")

\* the join type written after every input
CogroupItem_JoinTypeOnAll(st, i) ==
    LET s == ref(st.streams[i][1]) \o " by " \o ScalarStr(st.streams[i][2])
    IN  IF st.join_type # "inner" THEN s \o " " \o st.join_type ELSE s

\* the entry of one input in the cogroup line
CogroupItem(st, i) ==
    LET s == ref(st.streams[i][1]) \o " by " \o ScalarStr(st.streams[i][2])
    IN  IF i = 1 /\ st.join_type # "inner" THEN s \o " " \o st.join_type ELSE s

RECURSIVE StreamStr(_), StatementStr(_)

CogroupStatement__str__(st) ==
    LET n == Len(st.streams)
        streams == [i \in 1..n |-> CogroupItem(st, i)]
        lines == [i \in 1..(n + 1) |->
                    IF i <= n THEN StreamStr(st.streams[i][1])
                    ELSE Ok(ref(st.stream) \o " = cogroup "
                            \o JoinText(", ", streams) \o ";")]
    IN  Join("\n", n + 1, lines)

\* str(statement), by the statement's class
StatementStr(st) ==
    CASE st.kind = "load" -> LoadStatement__str__(st)
      [] st.kind = "foreach" -> ProjectionStatement__str__(st)
      [] st.kind = "group" -> GroupStatement__str__(st)
      [] st.kind = "filter" -> FilterStatement__str__(st)
      [] st.kind = "order" -> OrderStatement__str__(st)
      [] st.kind = "limit" -> LimitStatement__str__(st)
      [] st.kind = "fill" -> FillStatement__str__(st)
      [] st.kind = "cogroup" -> CogroupStatement__str__(st)

\* Stream.__str__: the statements joined by newlines; the alias is not read.
StreamStr(s) ==
    Join("\n", Len(_statements[s]),
         [i \in 1..Len(_statements[s]) |-> StatementStr(_statements[s][i])])

---------------------------------------------------------------------------
(* Construction and the builder calls.                                     *)

\* how a call ended: the object it returned (0: none), or what it raised
\* self and ret are stream objects (0: none), scalar and ret_scalar field
\* objects ("": none), arg an integer argument, name a string argument.
Returned(op, s) ==
    [op |-> op, self |-> s, scalar |-> "", arg |-> 0, name |-> "",
     ret |-> s, ret_scalar |-> "", raised |-> "none"]
Raised(op, s, exc) ==
    [op |-> op, self |-> s, scalar |-> "", arg |-> 0, name |-> "",
     ret |-> 0, ret_scalar |-> "", raised |-> exc]

Init ==
    /\ nStreams = 0
    /\ _id = <<>>
    /\ _statements = <<>>
    /\ _alias = [stream |-> <<>>, scalar |-> [f \in Fields |-> None]]
    /\ call = Returned("none", 0)

\* Stream.__init__ of a new object, followed by the subclass's own lines:
\* the id it ends with and its first statement.
NewStream(op, id, ids, st) ==
    /\ nStreams' = nStreams + 1
    /\ _id' = Append(ids, id)
    /\ _statements' = Append(_statements, <<st>>)
    /\ _alias' = [_alias EXCEPT !.stream = Append(@, None)]
    /\ call' = Returned(op, nStreams + 1)

\* load(name)
Load(name) ==
    NewStream("load", 0, _id,
              [kind |-> "load", stream |-> nStreams + 1, name |-> name])

\* stream._id = i
Shift_Assign(id, i) == i

\* stream._id += i
Shift(id, i) == id + i

RECURSIVE CogroupLoop(_, _, _)
\* the loop of cogroup.__init__ from the i-th input (0-indexed) on, over the
\* ids so far and max_id so far
CogroupLoop(acc, streams, i) ==
    IF i >= Len(streams) THEN acc
    ELSE LET stream == streams[i + 1][1]
             id == Shift(acc.ids[stream], i)
         IN  CogroupLoop([ids |-> [acc.ids EXCEPT ![stream] = id],
                          max_id |-> Max(acc.max_id, id)],
                         streams, i + 1)

\* self._id = max_id
CogroupId_NoIncrement(max_id) == max_id

\* self._id = max_id + 1
CogroupId(max_id) == max_id + 1

\* cogroup(*streams, join_type=join_type)
Cogroup(streams, join_type) ==
    LET done == CogroupLoop([ids |-> _id, max_id |-> 0], streams, 0)
    IN  NewStream("cogroup", CogroupId(done.max_id), done.ids,
                  [kind |-> "cogroup", stream |-> nStreams + 1,
                   streams |-> streams, join_type |-> join_type])

\* self._statements.insert(0, statement)
append_AtFront(statements, st) == <<st>> \o statements

\* self._statements.append(statement)
append(statements, st) == Append(statements, st)

\* the tail of every chaining method: append the statement, return self
Chain(op, s, st) ==
    /\ _statements' = [_statements EXCEPT ![s] = append(@, st)]
    /\ call' = Returned(op, s)
    /\ UNCHANGED <<nStreams, _id, _alias>>

Foreach(s, fields) ==
    Chain("foreach", s, [kind |-> "foreach", stream |-> s, fields |-> fields])

Group(s, fields) ==
    Chain("group", s, [kind |-> "group", stream |-> s, fields |-> fields])

Filter(s, filters) ==
    Chain("filter", s, [kind |-> "filter", stream |-> s, filters |-> filters])

Order(s, fields) ==
    Chain("order", s, [kind |-> "order", stream |-> s, fields |-> fields])

\* a check that also refuses the maximum itself
LimitRaises_OffByOne(limit) == limit >= LimitMax

\* the check of LimitStatement.__init__
LimitRaises(limit) == limit > LimitMax

\* a limit that appends the statement before its value is checked
Limit_AppendThenCheck(s, limit) ==
    /\ _statements' = [_statements EXCEPT
                           ![s] = append(@, [kind |-> "limit", stream |-> s,
                                             limit |-> limit])]
    /\ call' = IF LimitRaises(limit)
               THEN [Raised("limit", s, "ValueError") EXCEPT !.arg = limit]
               ELSE [Returned("limit", s) EXCEPT !.arg = limit]
    /\ UNCHANGED <<nStreams, _id, _alias>>

\* Stream.limit: the statement's constructor runs before the append
Limit(s, limit) ==
    IF LimitRaises(limit)
    THEN /\ call' = [Raised("limit", s, "ValueError") EXCEPT !.arg = limit]
         /\ UNCHANGED <<nStreams, _id, _statements, _alias>>
    ELSE /\ _statements' = [_statements EXCEPT
                                ![s] = append(@, [kind |-> "limit", stream |-> s,
                                                  limit |-> limit])]
         /\ call' = [Returned("limit", s) EXCEPT !.arg = limit]
         /\ UNCHANGED <<nStreams, _id, _alias>>

Fill(s, date_cols, date_type_string, partition) ==
    Chain("fill", s,
          [kind |-> "fill", stream |-> s, date_cols |-> date_cols,
           date_type_string |-> date_type_string, partition |-> partition])

\* Expression.alias on a stream
AliasStream(s, name) ==
    /\ _alias' = [_alias EXCEPT !.stream[s] = Some(name)]
    /\ call' = [Returned("alias", s) EXCEPT !.name = name]
    /\ UNCHANGED <<nStreams, _id, _statements>>

\* an alias that is kept once set
AliasScalar_KeepFirst(f, name) ==
    /\ _alias' = [_alias EXCEPT
                     !.scalar[f] = IF @ = None THEN Some(name) ELSE @]
    /\ call' = [Returned("alias", 0) EXCEPT !.scalar = f, !.name = name,
                                            !.ret_scalar = f]
    /\ UNCHANGED <<nStreams, _id, _statements>>

\* Expression.alias on a field
AliasScalar(f, name) ==
    /\ _alias' = [_alias EXCEPT !.scalar[f] = Some(name)]
    /\ call' = [Returned("alias", 0) EXCEPT !.scalar = f, !.name = name,
                                            !.ret_scalar = f]
    /\ UNCHANGED <<nStreams, _id, _statements>>

---------------------------------------------------------------------------
(* The specifications.                                                     *)

RECURSIVE Total(_, _)
Total(seqs, n) == IF n = 0 THEN 0 ELSE Len(seqs[n]) + Total(seqs, n - 1)

\* the statements appended by chaining calls so far
Chained == Total(_statements, nStreams) - nStreams

\* the cogroup streams constructed so far
Cogroups == Cardinality({s \in Streams : _statements[s][1].kind = "cogroup"})

\* the argument lists of cogroup: (stream, key) pairs over the streams so far
InputLists(counts) == UNION {[1..k -> Streams \X Keys] : k \in counts}

\* Chaining, with the numbering at work behind it.
Next ==
    \/ \E name \in Names : nStreams < MaxStreams - 2 /\ Load(name)
    \/ \E streams \in InputLists(FewInputCounts), join_type \in JoinTypes :
          /\ nStreams < MaxStreams - 2
          /\ Cogroups < MaxCogroups - 1
          /\ Cogroup(streams, join_type)
    \/ \E s \in Streams, fields \in FieldLists :
          Chained < MaxChain - 1 /\ Foreach(s, fields)
    \/ \E s \in Streams, fields \in FieldLists :
          Chained < MaxChain - 1 /\ Group(s, fields)
    \/ \E s \in Streams, filters \in FilterLists :
          Chained < MaxChain - 1 /\ Filter(s, filters)
    \/ \E s \in Streams, fields \in OrderLists :
          Chained < MaxChain - 1 /\ Order(s, fields)
    \/ \E s \in Streams, limit \in Limits :
          Chained < MaxChain - 1 /\ Limit(s, limit)
    \/ \E s \in Streams, partition \in Partitions, t \in FillTypes :
          Chained < MaxChain - 1 /\ Fill(s, <<"f1">>, t, partition)

Spec == Init /\ [][Next]_vars

\* Limits in and out of range; a call that raises adds no statement, so it
\* is not held back by the bound on the statements.
NextLimit ==
    \/ \E name \in Names : nStreams < MaxStreams - 2 /\ Load(name)
    \/ \E streams \in InputLists(FewInputCounts) :
          /\ nStreams < MaxStreams - 2
          /\ Cogroups < MaxCogroups - 1
          /\ Cogroup(streams, "inner")
    \/ \E s \in Streams, limit \in Limits :
          (Chained < MaxChain - 1 \/ LimitRaises(limit)) /\ Limit(s, limit)

SpecLimit == Init /\ [][NextLimit]_vars

\* The numbering of cogroup over deeper graphs of streams.
NextNumbering ==
    \/ \E name \in Names : nStreams < MaxStreams /\ Load(name)
    \/ \E streams \in InputLists(InputCounts) :
          /\ nStreams < MaxStreams
          /\ Cogroups < MaxCogroups
          /\ Cogroup(streams, "inner")

SpecNumbering == Init /\ [][NextNumbering]_vars

\* Rendering of nested cogroups over streams with a history.
NextRender ==
    \/ \E name \in Names : nStreams < MaxStreams - 1 /\ Load(name)
    \/ \E streams \in InputLists(FewInputCounts), join_type \in JoinTypes :
          /\ nStreams < MaxStreams - 1
          /\ Cogroups < MaxCogroups
          /\ Cogroup(streams, join_type)
    \/ \E s \in Streams, fields \in FieldLists :
          Chained < MaxChain - 1 /\ Foreach(s, fields)

SpecRender == Init /\ [][NextRender]_vars

\* Aliases on fields and on streams.
NextAlias ==
    \/ \E name \in Names : nStreams < MaxStreams - 3 /\ Load(name)
    \/ \E s \in Streams, fields \in FieldLists :
          Chained < MaxChain - 1 /\ Foreach(s, fields)
    \/ \E s \in Streams, name \in AliasNames : AliasStream(s, name)
    \/ \E f \in Fields, name \in AliasNames : AliasScalar(f, name)

SpecAlias == Init /\ [][NextAlias]_vars

---------------------------------------------------------------------------
(* The claims.                                                             *)

ChainOps == {"foreach", "group", "filter", "order", "limit", "fill"}

\* the reference token of a stream, from its id now
Token(s) == "q" \o ToString(_id[s])

\* the stream a cogroup call has just constructed, and its inputs
Inputs(s) == _statements[s][1].streams
IsCogroup(s) == _statements[s][1].kind = "cogroup"

MaxOf(S) == CHOOSE m \in S : \A x \in S : x <= m

RECURSIVE Rendered(_)
\* the streams whose statements appear in the rendering of s
Rendered(s) ==
    IF IsCogroup(s)
    THEN {s} \cup UNION {Rendered(Inputs(s)[i][1]) : i \in DOMAIN Inputs(s)}
    ELSE {s}

PairwiseDistinct(streams) ==
    \A i, j \in DOMAIN streams : i # j => streams[i][1] # streams[j][1]

\* C2 as stated: once cogroup is constructed over pairwise distinct inputs,
\* the new stream and every stream rendered with it have pairwise distinct
\* ids.
C2_DistinctIds ==
    (call.op = "cogroup" /\ PairwiseDistinct(Inputs(call.ret))) =>
        \A a, b \in Rendered(call.ret) : a # b => _id[a] # _id[b]

RECURSIVE IndexSum(_, _)
\* the sum of the 0-indexed positions at which s is an input
IndexSum(streams, s) ==
    IF streams = <<>> THEN 0
    ELSE (IF streams[Len(streams)][1] = s THEN Len(streams) - 1 ELSE 0)
         + IndexSum(SubSeq(streams, 1, Len(streams) - 1), s)

\* C3: a cogroup call adds i to the id of its i-th input (0-indexed, once
\* per position the stream is given at), changes no other id, and gives the
\* new stream 1 plus the greatest input id after the increments (1 when
\* there is no input).
C3_CogroupNumbering ==
    [][call'.op = "cogroup" =>
          LET new == call'.ret
              streams == _statements'[new][1].streams
          IN  /\ new = nStreams + 1
              /\ \A s \in Streams : _id'[s] = _id[s] + IndexSum(streams, s)
              /\ _id'[new] =
                    1 + MaxOf({0} \cup {_id'[streams[i][1]] : i \in DOMAIN streams})
      ]_vars

\* three fresh streams combined: ids 0, 1, 2 and the new stream 3
C3_Witness ==
    /\ call.op = "cogroup"
    /\ nStreams = 4
    /\ Cogroups = 1
    /\ Inputs(4) = <<<<1, "f1">>, <<2, "f1">>, <<3, "f1">>>>
    /\ _id = <<0, 1, 2, 3>>

\* the line a cogroup statement ends with, from the ids now
CogroupLine(st) ==
    Token(st.stream) \o " = cogroup "
    \o JoinText(", ",
                [i \in DOMAIN st.streams |->
                    Token(st.streams[i][1]) \o " by " \o ScalarStr(st.streams[i][2])
                    \o (IF i = 1 /\ st.join_type # "inner"
                        THEN " " \o st.join_type ELSE "")])
    \o ";"

\* the renderings of the inputs at the given positions, then the cogroup line
CogroupText(st, positions) ==
    JoinText("\n",
             [i \in 1..(Len(positions) + 1) |->
                 IF i <= Len(positions)
                 THEN StreamStr(st.streams[positions[i]][1]).text
                 ELSE CogroupLine(st)])

\* C4: in every state, every statement of every stream is owned by that
\* stream and renders with the token of the stream's id now.
C4_LateBound ==
    \A s \in Streams : \A k \in 1..Len(_statements[s]) :
        LET st == _statements[s][k]
        IN  /\ st.stream = s
            /\ st.kind = "load" =>
                  StatementStr(st) = Ok(Token(s) \o " = load \"" \o st.name \o "\";")
            /\ st.kind = "foreach" =>
                  StatementStr(st) =
                      Ok(Token(s) \o " = foreach " \o Token(s) \o " generate "
                         \o FieldsStr(", ", st.fields) \o ";")
            /\ st.kind = "cogroup" =>
                  StatementStr(st) =
                      Ok(CogroupText(st, [i \in DOMAIN st.streams |-> i]))

\* a load stream, constructed with id 0, that a cogroup has shifted to 1
C4_Witness ==
    \E s \in Streams :
        /\ _id[s] = 1
        /\ Len(_statements[s]) = 2
        /\ StreamStr(s).text =
              "q1 = load \"a\";\nq1 = foreach q1 generate 'f1';"

C6_RenderNeverRaises ==
    \A s \in Streams : StreamStr(s).exc = "none"

\* C7: a limit call that raises leaves every statement list and every id as
\* they were, and the stream renders as before.
C7_FailedLimitLeavesStream ==
    [][(call'.op = "limit" /\ call'.raised # "none") =>
          /\ _statements' = _statements
          /\ _id' = _id
          /\ nStreams' = nStreams
          /\ \A s \in Streams :
                call'.self = s => StreamStr(s)' = StreamStr(s)
      ]_vars

C7_Witness ==
    /\ call.op = "limit"
    /\ call.raised = "ValueError"
    /\ call.arg = 10001
    /\ Len(_statements[call.self]) = 2

\* the string conversion the claim gives an expression with this alias
Aliased(rendered, alias) ==
    IF alias = None THEN rendered
    ELSE rendered \o " as " \o escape_identifier(Head(alias))

RECURSIVE Firsts(_, _)
\* the positions, from i on, at which an input stream is given the first time
Firsts(streams, i) ==
    IF i > Len(streams) THEN <<>>
    ELSE (IF \E j \in 1..(i - 1) : streams[j][1] = streams[i][1]
          THEN <<>> ELSE <<i>>)
         \o Firsts(streams, i + 1)

\* C9 as stated: a cogroup statement renders the history of every distinct
\* input once, in input order, then the one cogroup line.
C9_DistinctInputsOnce ==
    \A s \in Streams :
        IsCogroup(s) =>
            StatementStr(_statements[s][1]) =
                Ok(CogroupText(_statements[s][1], Firsts(Inputs(s), 1)))

\* C9 amended: a cogroup statement renders the full history of its inputs
\* in input order, once per position (a stream given twice is rendered
\* twice), then exactly one line naming each input's token and key in input
\* order, with the join type after the first input only, and only when it
\* is not inner.
C9_EveryInputInOrder ==
    \A s \in Streams :
        IsCogroup(s) =>
            StatementStr(_statements[s][1]) =
                Ok(CogroupText(_statements[s][1],
                               [i \in DOMAIN Inputs(s) |-> i]))

C9_Witness ==
    \E s \in Streams :
        /\ IsCogroup(s)
        /\ Len(Inputs(s)) = 2
        /\ Inputs(s)[1][1] = Inputs(s)[2][1]
        /\ IsCogroup(Inputs(s)[1][1])
        /\ _statements[s][1].join_type = "left"

\* C10: ids are never negative and never decrease, and a cogroup stream is
\* constructed with an id of at least 1 that is greater than the id of each
\* of its inputs.
C10_IdsGrow ==
    [][/\ \A s \in Streams : _id'[s] >= _id[s]
       /\ \A s \in 1..nStreams' : _id'[s] >= 0
       /\ call'.op = "cogroup" =>
             LET new == call'.ret
                 streams == _statements'[new][1].streams
             IN  /\ _id'[new] >= 1
                 /\ \A i \in DOMAIN streams : _id'[new] > _id'[streams[i][1]]
      ]_vars

\* a cogroup over an earlier cogroup stream that it has shifted further
C10_Witness ==
    /\ call.op = "cogroup"
    /\ \E i \in DOMAIN Inputs(call.ret) :
          /\ IsCogroup(Inputs(call.ret)[i][1])
          /\ i = 2
          /\ _id[Inputs(call.ret)[i][1]] = 3

====
